---------------------------- MODULE Spec2Model ----------------------------
(***************************************************************************)
(* NL2SQL map-reduce agent: process_question, the map-reduce fan-out over  *)
(* _execute_single_query (the self-correcting generate/execute loop), the  *)
(* visualization assessor, the plot generator and the result synthesizer.  *)
(*                                                                         *)
(* Python values are modelled as follows.  A dict is a record; a dict      *)
(* whose key set varies is a record whose DOMAIN varies.  A result row     *)
(* (an ordered dict) is [keys |-> <<names>>, vals |-> <<cells>>].  A cell  *)
(* is [t, s, n]: a string, a number or NULL.  Python's None is the         *)
(* reserved string None where the other values are strings, and a record   *)
(* [kind |-> "None"] where the other values are records.                   *)
(***************************************************************************)
EXTENDS Integers, Sequences, FiniteSets, TLC

VARIABLES
    question,         \* the question given to process_question
    max_retries,      \* the max_retries argument of _execute_single_query
    reqPc,            \* where process_question is
    analysis,         \* the planner's analysis held by process_question
    loops,            \* one _execute_single_query frame per launched loop
    kernelFunctions,  \* kernel.plugins["SQLGenerator"]["generate"], by reference
    terminated,       \* loop indexes in the order their coroutine ended
    genCount,         \* per loop: the calls of _generate_sql made so far
    execCount,        \* per loop: the calls of execute_query made so far
    synthCalls,       \* the chat.completions.create calls of the synthesizer
    response,         \* what process_question returned
    call,             \* the last call of a function made on its own: its
                      \* arguments and what it returned
    connections       \* the store connections of the process

vars == <<question, max_retries, reqPc, analysis, loops, kernelFunctions,
          terminated, genCount, execCount, synthCalls, response, call,
          connections>>

-----------------------------------------------------------------------------
(* Bounds of the model *)

\* largest number of sub-questions a planner answer of the model holds
MaxSubQueries == 2

\* largest max_retries _execute_single_query is called with on its own
MaxRetriesBound == 3

\* largest number of columns and of rows of a result set the assessor is
\* called with on its own
MaxColumns == 3
MaxRows == 2

(* Program constants *)

\* def _execute_single_query(self, question, max_retries: int = 2)
DefaultMaxRetries == 2

-----------------------------------------------------------------------------
(* Python helpers *)

None == "None"

NonePlot == [kind |-> "None"]

\* Python truthiness of an optional string: None and "" are falsy
Falsy(s) == s = None \/ s = ""

Min2(a, b) == IF a < b THEN a ELSE b

\* cells of a result row
S(str) == [t |-> "str", s |-> str, n |-> 0]
N(num) == [t |-> "num", s |-> "", n |-> num]
Null == [t |-> "null", s |-> "", n |-> 0]


-----------------------------------------------------------------------------
(* The data store: sqlite3 behind DatabaseConnector *)

\* SQL texts the language model of the model produces
SqlEmpty == ""
SqlCount == "SELECT COUNT(*) AS total FROM customer"
SqlChurn == "SELECT country, churn_rate FROM churn_by_country"
SqlPlans == "SELECT country, plan FROM account"
SqlBadColumn == "SELECT nme FROM customer"
SqlBadSyntax == "SELEC country FROM account"

SqlTexts == {SqlEmpty, SqlCount, SqlChurn, SqlPlans, SqlBadColumn, SqlBadSyntax}

\* further SQL texts, given to a loop called on its own: a SELECT * and a
\* one-row cross-tab
SqlStar == "SELECT * FROM account"
SqlPivot == "SELECT product, q1_revenue, q2_revenue FROM revenue WHERE product = 'Basic'"

ChartSqlTexts == {SqlStar, SqlPivot}

ErrNoColumn == "no such column: nme"
ErrSyntax == "near \"SELEC\": syntax error"

\* cursor.execute(sql) and cursor.fetchall() on the churn database: the
\* engine raises with its message, or yields cursor.description and the rows.
\* sqlite3 executes an empty statement without error and yields no row.
Engine(sql) ==
    CASE sql = SqlCount ->
            [raises |-> FALSE, message |-> "",
             description |-> <<"total">>, rows |-> << <<N(5000)>> >>]
      [] sql = SqlChurn ->
            [raises |-> FALSE, message |-> "",
             description |-> <<"country", "churn_rate">>,
             rows |-> << <<S("USA"), N(24)>>, <<S("UK"), N(23)>> >>]
      [] sql = SqlPlans ->
            [raises |-> FALSE, message |-> "",
             description |-> <<"country", "plan">>,
             rows |-> << <<S("USA"), S("Basic")>>, <<S("UK"), S("Premium")>> >>]
      [] sql = SqlStar ->
            [raises |-> FALSE, message |-> "",
             description |-> <<"country", "plan">>,
             rows |-> << <<S("USA"), S("Basic")>>, <<S("UK"), S("Premium")>> >>]
      [] sql = SqlPivot ->
            [raises |-> FALSE, message |-> "",
             description |-> <<"product", "q1_revenue", "q2_revenue">>,
             rows |-> << <<S("Basic"), N(120), N(150)>> >>]
      [] sql = SqlBadColumn ->
            [raises |-> TRUE, message |-> ErrNoColumn,
             description |-> <<>>, rows |-> <<>>]
      [] sql = SqlBadSyntax ->
            [raises |-> TRUE, message |-> ErrSyntax,
             description |-> <<>>, rows |-> <<>>]
      [] OTHER ->
            [raises |-> FALSE, message |-> "",
             description |-> <<>>, rows |-> <<>>]

\* DatabaseConnector.execute_query: (results, None), or ([], str(e));
\* `closed`: conn.close() was called before the return (line 57), which the
\* except branch does not do
execute_query(sql) ==
    LET r == Engine(sql) IN
    IF r.raises
    THEN [results |-> <<>>, error |-> r.message, closed |-> FALSE]
    ELSE [results |-> [k \in 1..Len(r.rows) |->
                          [keys |-> r.description, vals |-> r.rows[k]]],
          error |-> None, closed |-> TRUE]

\* The connections of the process: how many are open, and whether the
\* interpreter frees an object when its last reference goes (reference
\* counting) or at some later collection.  A request runs on the
\* reference-counted interpreter; a loop called on its own runs on either.
ReferenceCounted == [open |-> 0, refcounted |-> TRUE]
Collected == [open |-> 0, refcounted |-> FALSE]
Builds == {ReferenceCounted, Collected}

\* the connections after one execute_query call returned r: get_connection
\* opened one (line 29); it is closed by conn.close(), or else when the
\* connection object is freed, which is at the return of execute_query only
\* under reference counting
connections_after(c, r) ==
    IF r.closed \/ c.refcounted THEN c ELSE [c EXCEPT !.open = @ + 1]

-----------------------------------------------------------------------------
(* Result sets as the assessor and the plot generator read them *)

\* row.get(col)
Get(row, col) ==
    IF \E k \in 1..Len(row.keys) : row.keys[k] = col
    THEN row.vals[CHOOSE k \in 1..Len(row.keys) : row.keys[k] = col]
    ELSE Null

\* the values of one column, in row order
Column(results, col) == [k \in 1..Len(results) |-> Get(results[k], col)]

\* the non-null values of a sequence of cells, in order
NonNull(cells) ==
    LET F[k \in 0..Len(cells)] ==
            IF k = 0 THEN <<>>
            ELSE IF cells[k].t = "null" THEN F[k - 1]
                 ELSE Append(F[k - 1], cells[k])
    IN F[Len(cells)]

\* list(results[0].keys()) if results else []
ColumnsOf(results) == IF Len(results) > 0 THEN results[1].keys ELSE <<>>

\* The keywords of the assessor's two keyword lists that occur in a
\* (lower-cased) column name, for the column names of the model.
KeywordsIn(col) ==
    CASE col = "month" -> {"month"}
      [] col = "q1_revenue" -> {"q1"}
      [] col = "q2_revenue" -> {"q2"}
      [] col = "product" -> {"product"}
      [] col = "period" -> {"period"}
      [] OTHER -> {}

pivot_keywords ==
    {"q1", "q2", "q3", "q4", "jan", "feb", "mar", "apr", "may", "jun",
     "jul", "aug", "sep", "oct", "nov", "dec", "product", "region"}

time_keywords ==
    {"date", "time", "year", "month", "day", "week", "quarter",
     "period", "timestamp", "created", "updated"}

\* VisualizationAssessor._looks_like_pivot
_looks_like_pivot(columns) ==
    IF Len(columns) < 3 THEN FALSE
    ELSE Cardinality({k \in 1..Len(columns) :
                        KeywordsIn(columns[k]) \cap pivot_keywords # {}}) >= 2

\* VisualizationAssessor._has_time_column
_has_time_column(columns) ==
    \E k \in 1..Len(columns) : KeywordsIn(columns[k]) \cap time_keywords # {}

\* VisualizationAssessor._has_category_and_metrics
_has_category_and_metrics(columns, results) ==
    IF Len(columns) < 2 \/ Len(results) = 0 THEN FALSE
    ELSE LET first_values == NonNull(Column(results, columns[1])) IN
         IF Len(first_values) = 0 THEN FALSE
         ELSE /\ first_values[1].t = "str"
              /\ \E k \in 2..Len(columns) :
                    LET values == NonNull(Column(results, columns[k])) IN
                    Len(values) > 0 /\ values[1].t = "num"

\* mutant of single_scalar: the number of rows is not looked at
single_scalar_AnyRows(results, columns) == Len(columns) = 1

\* `if len(results) == 1 and len(columns) == 1:` (line 35)
single_scalar(results, columns) == Len(results) = 1 /\ Len(columns) = 1

\* VisualizationAssessor.should_visualize
should_visualize(q, sql, results, columns) ==
    IF Len(results) = 0 THEN
        [should_visualize |-> FALSE,
         reason |-> "No data returned from query",
         chart_type |-> None]
    ELSE IF single_scalar(results, columns) THEN
        [should_visualize |-> FALSE,
         reason |-> "Single scalar value - better displayed as text",
         chart_type |-> None,
         display_format |-> "scalar"]
    ELSE IF Len(results) = 1 /\ Len(columns) > 1 THEN
        IF _looks_like_pivot(columns) THEN
            [should_visualize |-> TRUE,
             reason |-> "Single row with multiple category columns - good for bar chart",
             chart_type |-> "bar"]
        ELSE
            [should_visualize |-> FALSE,
             reason |-> "Single row with mixed columns - better as table",
             chart_type |-> None]
    ELSE IF Len(results) >= 2 /\ Len(columns) = 2 THEN
        [should_visualize |-> TRUE,
         reason |-> "Multiple rows with category-value pairs - ideal for charts",
         chart_type |-> "auto"]
    ELSE IF Len(results) >= 2 /\ Len(columns) >= 3 THEN
        IF _has_time_column(columns) THEN
            [should_visualize |-> TRUE,
             reason |-> "Time-series data detected - good for line chart",
             chart_type |-> "line"]
        ELSE IF _has_category_and_metrics(columns, results) THEN
            [should_visualize |-> TRUE,
             reason |-> "Category with multiple metrics - good for grouped bar chart",
             chart_type |-> "bar"]
        ELSE
            [should_visualize |-> FALSE,
             reason |-> "Complex multi-column data - better as table",
             chart_type |-> None]
    ELSE
        [should_visualize |-> FALSE,
         reason |-> "Data structure not suitable for standard visualizations",
         chart_type |-> None]

-----------------------------------------------------------------------------
(* PlotGenerator *)

\* re.search(r'SELECT\s+\*', query, re.IGNORECASE), for the SQL texts of the model
MatchesSelectStar(query) == query \in {SqlStar}

\* re.search(r'\b(COUNT|SUM|AVG|MAX|MIN|GROUP BY)\b', query, re.IGNORECASE)
HasAggregation(query) == query \in {SqlCount}

\* the period strings of the model
Dates ==
    <<"2024-01", "2024-02", "2024-03", "2024-04", "2024-05", "2024-06",
      "2024-07", "2024-08", "2024-09", "2024-10", "2024-11", "2024-12">>

\* strings of the model that pd.to_datetime(..., errors='coerce') parses
ParsesAsDatetime(str) == \E k \in 1..Len(Dates) : Dates[k] = str

\* strings of the model that match date_pattern
MatchesDatePattern(str) == \E k \in 1..Len(Dates) : Dates[k] = str

\* pd.api.types.is_numeric_dtype of a DataFrame column: every value a number
\* or NULL (NaN), and not all NULL
IsNumericDtype(cells) ==
    /\ \A k \in 1..Len(cells) : cells[k].t \in {"num", "null"}
    /\ \E k \in 1..Len(cells) : cells[k].t = "num"

\* PlotGenerator._is_temporal_column
_is_temporal_column(cells) ==
    IF IsNumericDtype(cells) THEN FALSE
    ELSE LET nonnull == NonNull(cells)
             sample == SubSeq(nonnull, 1, Min2(10, Len(nonnull)))
             parsed == Cardinality({k \in 1..Len(sample) :
                          sample[k].t = "str" /\ ParsesAsDatetime(sample[k].s)})
             matches == Cardinality({k \in 1..Len(sample) :
                          sample[k].t = "str" /\ MatchesDatePattern(sample[k].s)})
         IN IF Len(sample) = 0 THEN FALSE
            ELSE \/ parsed * 10 > 8 * Len(sample)
                 \/ matches * 10 > 8 * Len(sample)

\* PlotGenerator._has_time_column
PlotGenerator_has_time_column(results) ==
    IF Len(results) = 0 THEN FALSE
    ELSE \E k \in 1..Len(ColumnsOf(results)) :
            _is_temporal_column(Column(results, ColumnsOf(results)[k]))

\* PlotGenerator.should_visualize
PlotGenerator_should_visualize(query, results) ==
    IF Len(results) = 0 THEN FALSE
    ELSE IF Len(results) = 1 /\ Len(results[1].keys) > 2 THEN FALSE
    ELSE IF MatchesSelectStar(query) THEN FALSE
    ELSE \/ HasAggregation(query)
         \/ PlotGenerator_has_time_column(results)
         \/ Len(results) > 1

\* df.select_dtypes(include=['number']).columns, as column positions
NumericCols(results) ==
    {k \in 1..Len(ColumnsOf(results)) :
        IsNumericDtype(Column(results, ColumnsOf(results)[k]))}

\* the (0..1 or 0..100) test of _detect_chart_type on one numeric column
IsRatioColumn(cells) ==
    LET values == NonNull(cells) IN
    /\ Len(values) > 0
    /\ \A k \in 1..Len(values) : 0 <= values[k].n /\ values[k].n <= 100

\* PlotGenerator._detect_chart_type
_detect_chart_type(results, query) ==
    LET cols == ColumnsOf(results) IN
    IF Len(results) = 0 THEN "bar"
    ELSE IF /\ \E k \in 1..Len(cols) : _is_temporal_column(Column(results, cols[k]))
            /\ Len(results) > 2
    THEN "line"
    ELSE IF /\ \E k \in NumericCols(results) : IsRatioColumn(Column(results, cols[k]))
            /\ Len(results) <= 10
    THEN "pie"
    ELSE "bar"

\* PlotGenerator._create_bar_chart: the value column it picks (0: none)
BarValueCol(results) ==
    LET cols == ColumnsOf(results)
        numeric == NumericCols(results)
        categorical == (1..Len(cols)) \ numeric
    IN IF categorical # {} /\ numeric # {}
       THEN CHOOSE k \in numeric : \A j \in numeric : k <= j
       ELSE IF Len(cols) >= 2 THEN 2 ELSE 0

\* PlotGenerator._create_bar_chart raises on astype(int) / the label format
\* when the value column holds a NULL (NaN) or is not numeric
_create_bar_chart_raises(results) ==
    LET v == BarValueCol(results) IN
    /\ v # 0
    /\ \E k \in 1..Len(results) : results[k].vals[v].t # "num"

\* PlotGenerator._create_bar_chart: the category column it picks (0: none)
BarCategoryCol(results) ==
    LET cols == ColumnsOf(results)
        numeric == NumericCols(results)
        categorical == (1..Len(cols)) \ numeric
    IN IF categorical # {} /\ numeric # {}
       THEN CHOOSE k \in categorical : \A j \in categorical : k <= j
       ELSE IF Len(cols) >= 2 THEN 1 ELSE 0

\* df.sort_values(by=value_col, ascending=True) on a numeric column: the
\* rows in ascending order of the value, equal values in row order
sort_values(results, v) ==
    LET n == Len(results)
        Rank(k) == 1 + Cardinality({j \in 1..n :
                        \/ results[j].vals[v].n < results[k].vals[v].n
                        \/ /\ results[j].vals[v].n = results[k].vals[v].n
                           /\ j < k})
    IN [p \in 1..n |-> results[CHOOSE k \in 1..n : Rank(k) = p]]

\* a trace of a figure: go.Bar, go.Scatter or go.Pie with its two data
\* arrays (x and y; for go.Pie x holds the labels and y the values) and the
\* column its numbers are meant to come from
Trace(type, mode, value_col, x, y) ==
    [type |-> type, mode |-> mode, value_col |-> value_col, x |-> x, y |-> y]

\* the values of column number k, in row order (df[col].tolist())
ColumnAt(results, k) == [r \in 1..Len(results) |-> results[r].vals[k]]

\* height=max(400, len(df_sorted) * 40) (line 231)
BarMinHeight == 400
BarRowHeight == 40

\* go.Figure() has no height of its own
NoHeight == 0

\* PlotGenerator._create_bar_chart, when it does not raise: one horizontal
\* go.Bar of the value column over the category column
_create_bar_chart(results) ==
    LET v == BarValueCol(results)
        c == BarCategoryCol(results)
    IN IF v = 0 THEN [traces |-> <<>>, height |-> NoHeight]
       ELSE LET df_sorted == sort_values(results, v) IN
            [traces |-> <<Trace("bar", "h", ColumnsOf(results)[v],
                                ColumnAt(df_sorted, v), ColumnAt(df_sorted, c))>>,
             height |-> IF BarMinHeight > Len(df_sorted) * BarRowHeight
                        THEN BarMinHeight
                        ELSE Len(df_sorted) * BarRowHeight]

\* the numeric columns in column order (select_dtypes(...).columns.tolist())
NumericColList(results) ==
    LET numeric == NumericCols(results)
        F[k \in 0..Len(ColumnsOf(results))] ==
            IF k = 0 THEN <<>>
            ELSE IF k \in numeric THEN Append(F[k - 1], k) ELSE F[k - 1]
    IN F[Len(ColumnsOf(results))]

\* PlotGenerator._create_line_chart: one go.Scatter per numeric column over
\* the first temporal column; a bar chart when no column is temporal
_create_line_chart(results) ==
    LET cols == ColumnsOf(results)
        temporal == {k \in 1..Len(cols) :
                        _is_temporal_column(Column(results, cols[k]))}
    IN IF temporal = {} THEN _create_bar_chart(results)
       ELSE LET x_col == CHOOSE k \in temporal : \A j \in temporal : k <= j
                numeric == NumericColList(results)
            IN [traces |-> [i \in 1..Len(numeric) |->
                               Trace("scatter", "lines+markers", cols[numeric[i]],
                                     ColumnAt(results, x_col),
                                     ColumnAt(results, numeric[i]))],
                height |-> NoHeight]

\* PlotGenerator._create_pie_chart: the first column as labels, the second
\* as values; a bar chart below two columns
_create_pie_chart(results) ==
    IF Len(ColumnsOf(results)) < 2 THEN _create_bar_chart(results)
    ELSE [traces |-> <<Trace("pie", "", ColumnsOf(results)[2],
                             ColumnAt(results, 1), ColumnAt(results, 2))>>,
          height |-> NoHeight]

\* PlotGenerator._create_scatter_chart: the first numeric column against the
\* second; a bar chart below two numeric columns
_create_scatter_chart(results) ==
    LET numeric == NumericColList(results) IN
    IF Len(numeric) < 2 THEN _create_bar_chart(results)
    ELSE [traces |-> <<Trace("scatter", "markers", ColumnsOf(results)[numeric[2]],
                             ColumnAt(results, numeric[1]),
                             ColumnAt(results, numeric[2]))>>,
          height |-> NoHeight]

\* height=400 of _apply_styling (line 330)
StyledHeight == 400

\* PlotGenerator._apply_styling
_apply_styling(fig) == [fig EXCEPT !.height = StyledHeight]

\* the chart builder of generate_plot raises: the bar chart on its labels,
\* also when the pie or line builder falls back to it
ChartBuilderRaises(chart_type, results) ==
    /\ \/ chart_type = "bar"
       \/ chart_type = "pie" /\ Len(ColumnsOf(results)) < 2
    /\ _create_bar_chart_raises(results)

\* PlotGenerator.generate_plot: None, a figure dict, or an exception
generate_plot(query, results) ==
    IF ~PlotGenerator_should_visualize(query, results)
    THEN [raised |-> FALSE, exc |-> "", plot |-> NonePlot]
    ELSE LET chart_type == _detect_chart_type(results, query) IN
         IF ChartBuilderRaises(chart_type, results)
         THEN [raised |-> TRUE,
               exc |-> "invalid literal for int() with base 10",
               plot |-> NonePlot]
         ELSE LET fig == _apply_styling(
                            CASE chart_type = "line" -> _create_line_chart(results)
                              [] chart_type = "pie" -> _create_pie_chart(results)
                              [] chart_type = "scatter" -> _create_scatter_chart(results)
                              [] OTHER -> _create_bar_chart(results))
              IN [raised |-> FALSE, exc |-> "",
                  plot |-> [kind |-> "figure", chart_type |-> chart_type,
                            traces |-> fig.traces, height |-> fig.height]]

-----------------------------------------------------------------------------
(* Questions and retrieval *)

Question0 ==
    "How many customers do I have in total and what is the churn rate per country?"

\* sub-questions a planner answer may hold, in the order it lists them
SubQuestionPool ==
    <<"How many customers do I have in total?",
      "What is the churn rate per country?",
      "Which plans do customers use per country?",
      "How many accounts are there per country?">>

\* MetadataIngestion.search_tables: the table dicts ranked for the query text
search_tables(query) ==
    CASE query = SubQuestionPool[1] ->
            <<[table |-> "customer", document |-> "Table: customer"]>>
      [] query = SubQuestionPool[2] ->
            <<[table |-> "churn_by_country", document |-> "Table: churn_by_country"]>>
      [] query = Question0 ->
            <<[table |-> "customer", document |-> "Table: customer"],
              [table |-> "churn_by_country", document |-> "Table: churn_by_country"]>>
      [] OTHER ->
            <<[table |-> "account", document |-> "Table: account"]>>

\* MetadataIngestion.search_queries: the example queries ranked for the query text
search_queries(query) ==
    <<[question |-> query, query |-> SqlCount, reasoning |-> "",
       main_table |-> "unknown"]>>

-----------------------------------------------------------------------------
(* NL2SQLAgentMapReduce: prompts and outcomes *)

\* mutant of _build_sql_prompt: the prompt is built for the question of the
\* request, whatever the sub-question of the loop
_build_sql_prompt_RequestQuestion(q, tables, queries) ==
    [kind |-> "generate",
     question |-> Question0,
     tables |-> [k \in 1..Len(search_tables(Question0)) |->
                    search_tables(Question0)[k].document],
     queries |-> [k \in 1..Len(queries) |-> queries[k].query],
     attempts |-> <<>>]

\* _build_sql_prompt: the parts the prompt text is made of
_build_sql_prompt(q, tables, queries) ==
    [kind |-> "generate",
     question |-> q,
     tables |-> [k \in 1..Len(tables) |-> tables[k].document],
     queries |-> [k \in 1..Len(queries) |-> queries[k].query],
     attempts |-> <<>>]

\* mutant of _build_sql_correction_prompt: only the latest attempt is shown
_build_sql_correction_prompt_LastOnly(q, tables, queries, execution_history) ==
    [kind |-> "correct",
     question |-> q,
     tables |-> [k \in 1..Len(tables) |-> tables[k].document],
     queries |-> [k \in 1..Len(queries) |-> queries[k].query],
     attempts |-> <<<<execution_history[Len(execution_history)].attempt,
                     execution_history[Len(execution_history)].sql,
                     execution_history[Len(execution_history)].error>>>>]

\* _build_sql_correction_prompt: one "Attempt n / SQL / Error" block per
\* entry of execution_history, in its order
_build_sql_correction_prompt(q, tables, queries, execution_history) ==
    [kind |-> "correct",
     question |-> q,
     tables |-> [k \in 1..Len(tables) |-> tables[k].document],
     queries |-> [k \in 1..Len(queries) |-> queries[k].query],
     attempts |-> [k \in 1..Len(execution_history) |->
                      <<execution_history[k].attempt,
                        execution_history[k].sql,
                        execution_history[k].error>>]]

\* The KernelFunction object that
\* kernel.add_function(plugin_name="SQLGenerator", function_name="generate", prompt=...)
\* creates; ref identifies the object: created by loop `ref[1]` for its
\* attempt `ref[2]`
KernelFunction(prompt, ref) ==
    [plugin_name |-> "SQLGenerator", function_name |-> "generate",
     prompt |-> prompt, ref |-> ref]

NoRef == <<0, 0>>

NoFunction ==
    [plugin_name |-> "", function_name |-> "", prompt |-> [kind |-> "None"],
     ref |-> NoRef]

Reasoning == "Generated SQL query based on available tables and example patterns."

\* mutant of InRange: the range runs one attempt too far
InRange_OffByOne(attempt, retries) == 0 <= attempt /\ attempt <= retries + 1

\* for attempt in range(max_retries + 1): whether the range holds `attempt`
InRange(attempt, retries) == 0 <= attempt /\ attempt < retries + 1

\* mutant of HistoryEntry: the 0-based loop index is recorded
HistoryEntry_ZeroBased(attempt, sql, error) ==
    [attempt |-> attempt, sql |-> sql, error |-> error]

\* the entry appended to execution_history
HistoryEntry(attempt, sql, error) ==
    [attempt |-> attempt + 1, sql |-> sql, error |-> error]

\* mutant of not_error: the test of line 189 inverted
not_error_Inverted(error) == ~Falsy(error)

\* `if not error:` (line 189)
not_error(error) == Falsy(error)

\* mutant of plot_if_recommended: the plot generator is called whatever the
\* verdict
plot_if_recommended_Always(viz, sql, results) == generate_plot(sql, results)

\* plot = None; if viz_assessment['should_visualize']: plot = generate_plot(...)
\* (lines 202-204)
plot_if_recommended(viz, sql, results) ==
    IF viz.should_visualize
    THEN generate_plot(sql, results)
    ELSE [raised |-> FALSE, exc |-> "", plot |-> NonePlot]

\* the dict returned at lines 206-215
SuccessOutcome(q, sql, reasoning, results, columns, plot, viz, attempt) ==
    [question |-> q, sql |-> sql, reasoning |-> reasoning,
     results |-> results, columns |-> columns, plot |-> plot,
     visualization_assessment |-> viz, attempts |-> attempt + 1]

\* the dict returned at lines 222-230; the error text is
\* f"Failed after {max_retries + 1} attempts. Last error: {error}"
FailureOutcome(q, sql, reasoning, error, retries, execution_history) ==
    [question |-> q, sql |-> sql, reasoning |-> reasoning,
     error |-> [failed_after |-> retries + 1, last_error |-> error],
     results |-> <<>>, columns |-> <<>>,
     execution_history |-> execution_history]

NoOutcome == [kind |-> "None"]

-----------------------------------------------------------------------------
(* Language-model answers of the planner and the synthesizer *)

\* A formatted text: the literal and the values formatted into it
Text(literal, args) == [text |-> literal, args |-> args]

NoneValue == [kind |-> "None"]

\* An answer of chat.completions.create followed by json.loads: the call
\* raises, the text is no JSON, the JSON is no object (a list), or an object
Raise(message) == [kind |-> "raise", message |-> message, obj |-> <<>>]
InvalidJson == [kind |-> "invalid", message |-> "Expecting value", obj |-> <<>>]
JsonList == [kind |-> "list", message |-> "", obj |-> <<>>]
JsonObject(obj) == [kind |-> "object", message |-> "", obj |-> obj]

\* dict.get(key) is truthy, for the boolean values of the model
GetTruthy(obj, key) == key \in DOMAIN obj /\ obj[key] = TRUE

\* mutant of SetKey: the assignment is skipped
SetKey_Skip(obj, key, value) == obj

\* result[key] = value on a dict
SetKey(obj, key, value) ==
    [k \in DOMAIN obj \cup {key} |-> IF k = key THEN value ELSE obj[k]]

\* QueryPlanner.analyze_question, given the completion's answer
analyze_question(q, ans) ==
    IF ans.kind = "raise" THEN
        [is_complex |-> FALSE,
         reasoning |-> Text("Error analyzing question: {}. Treating as simple query.",
                            <<ans.message>>),
         sub_queries |-> <<>>]
    ELSE IF ans.kind = "invalid" THEN
        [is_complex |-> FALSE,
         reasoning |-> Text("Error analyzing question: {}. Treating as simple query.",
                            <<ans.message>>),
         sub_queries |-> <<>>]
    ELSE IF ans.kind = "list" THEN
        \* result.get raises AttributeError inside the try
        [is_complex |-> FALSE,
         reasoning |-> Text("Error analyzing question: {}. Treating as simple query.",
                            <<"'list' object has no attribute 'get'">>),
         sub_queries |-> <<>>]
    ELSE IF ~GetTruthy(ans.obj, "is_complex")
         THEN SetKey(ans.obj, "sub_queries", <<>>)
         ELSE ans.obj

\* the sub-question lists of the model's planner answers
SubQueryLists == {SubSeq(SubQuestionPool, 1, n) : n \in 0..MaxSubQueries}

PlannerReasoning == Text("The question asks for two distinct metrics.", <<>>)

PlannerAnswers ==
    {Raise("Connection error."), InvalidJson, JsonList,
     JsonObject(<<>>),
     JsonObject([is_complex |-> FALSE, reasoning |-> PlannerReasoning]),
     JsonObject([is_complex |-> FALSE, reasoning |-> PlannerReasoning,
                 sub_queries |-> SubSeq(SubQuestionPool, 1, 2)]),
     JsonObject([is_complex |-> TRUE, reasoning |-> PlannerReasoning]),
     JsonObject([is_complex |-> TRUE,
                 sub_queries |-> SubSeq(SubQuestionPool, 1, 1)])}
    \cup {JsonObject([is_complex |-> TRUE, reasoning |-> PlannerReasoning,
                      sub_queries |-> sq]) : sq \in SubQueryLists}

\* ResultSynthesizer.synthesize_results, given the completion's answer:
\* the parsed JSON as it is, or the fallback of the except branch; `calls`
\* counts the chat.completions.create calls it made
synthesize_results(q, sub_results, ans) ==
    IF ans.kind \in {"raise", "invalid"} THEN
        [kind |-> "object",
         obj |-> [unified_answer |->
                     Text("Results from {} queries executed successfully.",
                          <<Len(sub_results)>>),
                  key_insights |-> <<Text("Error synthesizing results: {}", <<>>)>>],
         calls |-> 1]
    ELSE [kind |-> ans.kind, obj |-> ans.obj, calls |-> 1]

\* mutant of no_results: the early return is never taken
no_results_Never(results) == FALSE

\* `if not results or len(results) == 0:` (result_synthesizer.py line 120)
no_results(results) == Len(results) = 0

\* ResultSynthesizer.synthesize_simple_result, given the completion's answer;
\* `calls` counts the chat.completions.create calls it made
synthesize_simple_result(q, sql, results, columns, ans) ==
    IF no_results(results) THEN
        [kind |-> "object",
         obj |-> [summary |-> Text("No data found matching your query.", <<>>),
                  key_insights |-> <<>>],
         calls |-> 0]
    ELSE IF ans.kind \in {"raise", "invalid"} THEN
        [kind |-> "object",
         obj |-> [summary |-> Text("Query returned {} row(s).", <<Len(results)>>),
                  key_insights |-> <<>>],
         calls |-> 1]
    ELSE [kind |-> ans.kind, obj |-> ans.obj, calls |-> 1]

Insights == <<Text("USA has the highest churn rate.", <<>>)>>

SynthesisAnswers ==
    {Raise("Request timed out."), InvalidJson,
     JsonObject([unified_answer |-> Text("There are 5000 customers.", <<>>),
                 key_insights |-> Insights]),
     JsonObject([key_insights |-> Insights]),
     JsonObject([unified_answer |-> Text("There are 5000 customers.", <<>>)])}

SimpleSynthesisAnswers ==
    {Raise("Request timed out."), InvalidJson, JsonList,
     JsonObject([summary |-> Text("There are 5000 customers.", <<>>),
                 key_insights |-> Insights]),
     JsonObject([key_insights |-> Insights]),
     JsonObject([summary |-> Text("There are 5000 customers.", <<>>)])}

\* dict.get(key) / dict.get(key, default)
GetOr(obj, key, default) == IF key \in DOMAIN obj THEN obj[key] ELSE default

-----------------------------------------------------------------------------
(* State *)

LoopIds == 1..MaxSubQueries

\* the frame of one _execute_single_query call
NoLoop ==
    [pc |-> "unused", question |-> "", attempt |-> 0,
     relevant_tables |-> <<>>, relevant_queries |-> <<>>,
     execution_history |-> <<>>, chat_function |-> NoFunction,
     sql |-> None, error |-> None, outcome |-> NoOutcome, exc |-> ""]

NewLoop(q) == [NoLoop EXCEPT !.pc = "created", !.question = q]

Init ==
    /\ question = Question0
    /\ max_retries = DefaultMaxRetries
    /\ reqPc = "start"
    /\ analysis = NoneValue
    /\ loops = [i \in LoopIds |-> NoLoop]
    /\ kernelFunctions = NoRef
    /\ terminated = <<>>
    /\ genCount = [i \in LoopIds |-> 0]
    /\ execCount = [i \in LoopIds |-> 0]
    /\ synthCalls = 0
    /\ response = NoneValue
    /\ call = NoneValue
    /\ connections = ReferenceCounted

\* mutant of ErrorResponse: the exception is raised again to the caller
ErrorResponse_Reraise(q, message) ==
    [type |-> "exception", error |-> message, question |-> q]

\* the except branch of process_question
ErrorResponse(q, message) ==
    [type |-> "error", error |-> message, question |-> q]

\* process_question up to its first suspension: the planner's analysis, then
\* _execute_map_reduce creating one coroutine per sub-question and awaiting
\* asyncio.gather, or _execute_simple_query awaiting the one loop
process_question(ans) ==
    /\ reqPc = "start"
    /\ LET a == analyze_question(question, ans) IN
       /\ analysis' = a
       /\ IF "is_complex" \notin DOMAIN a THEN
              /\ response' = ErrorResponse(question, "'is_complex'")
              /\ reqPc' = "done"
              /\ loops' = loops
          ELSE IF a.is_complex THEN
              IF "sub_queries" \notin DOMAIN a THEN
                  /\ response' = ErrorResponse(question, "'sub_queries'")
                  /\ reqPc' = "done"
                  /\ loops' = loops
              ELSE
                  /\ response' = response
                  /\ reqPc' = "gather"
                  /\ loops' = [i \in LoopIds |->
                                  IF i <= Len(a.sub_queries)
                                  THEN NewLoop(a.sub_queries[i])
                                  ELSE NoLoop]
          ELSE
              /\ response' = response
              /\ reqPc' = "simple"
              /\ loops' = [i \in LoopIds |->
                              IF i = 1 THEN NewLoop(question) ELSE NoLoop]
    /\ UNCHANGED <<question, max_retries, kernelFunctions, terminated,
                   genCount, execCount, synthCalls, call,
                   connections>>

\* _generate_sql up to the await (lines 318-325): add_function creates the
\* function, stores it under SQLGenerator.generate (replacing what any loop
\* stored there before) and returns it; kernel.invoke is called with the
\* returned object
RegisterAndInvoke(i, prompt, frame) ==
    /\ kernelFunctions' = <<i, frame.attempt>>
    /\ loops' = [loops EXCEPT ![i] =
                    [frame EXCEPT !.pc = "generating",
                                  !.chat_function =
                                      KernelFunction(prompt, <<i, frame.attempt>>)]]
    /\ genCount' = [genCount EXCEPT ![i] = @ + 1]

\* the coroutine of loop i may run: asyncio starts tasks in creation order
MayStart(i) ==
    /\ loops[i].pc = "created"
    /\ \A j \in LoopIds : j < i => loops[j].pc # "created"

\* _execute_single_query from its start to the first await (lines 155-177)
StartLoop(i) ==
    /\ MayStart(i)
    /\ InRange(0, max_retries)
    /\ LET tables == search_tables(loops[i].question)
           queries == search_queries(loops[i].question)
           frame == [loops[i] EXCEPT !.relevant_tables = tables,
                                     !.relevant_queries = queries,
                                     !.attempt = 0]
       IN RegisterAndInvoke(i, _build_sql_prompt(loops[i].question, tables, queries),
                            frame)
    /\ UNCHANGED <<question, max_retries, reqPc, analysis, terminated,
                   execCount, synthCalls, response, call,
                   connections>>

\* the coroutine of loop i ends, by an exception or by a return: its locals
\* are gone, its exception or its return value is what the task holds
Ended(frame, pc, outcome, message) ==
    [NoLoop EXCEPT !.pc = pc, !.question = frame.question,
                   !.outcome = outcome, !.exc = message]

EndRaised(i, message) ==
    /\ loops' = [loops EXCEPT ![i] = Ended(loops[i], "raised", NoOutcome, message)]
    /\ terminated' = Append(terminated, i)

\* search_tables / search_queries raises (lines 156-157)
RetrievalRaises(i) ==
    /\ MayStart(i)
    /\ EndRaised(i, "Collection nl2sql_tables does not exist.")
    /\ UNCHANGED <<question, max_retries, reqPc, analysis, kernelFunctions,
                   genCount, execCount, synthCalls, response, call,
                   connections>>

\* kernel.invoke raises into _generate_sql (line 325): a transport failure
\* or the client's timeout
GenerationExceptions == {"Connection error.", "Request timed out."}

GenerationRaises(i, message) ==
    /\ loops[i].pc = "generating"
    /\ EndRaised(i, message)
    /\ UNCHANGED <<question, max_retries, reqPc, analysis, kernelFunctions,
                   genCount, execCount, synthCalls, response, call,
                   connections>>

\* kernel.invoke returns `sql` (the completion text, stripped of its code
\* fence) and the loop runs to its next suspension or to its end
\* (lines 177-230, and 162-177 of the next iteration)
GenerationReturns(i, sql) ==
    /\ loops[i].pc = "generating"
    /\ LET f == loops[i]
           r == execute_query(sql)
           history == Append(f.execution_history,
                             HistoryEntry(f.attempt, sql, r.error))
           ran == [f EXCEPT !.sql = sql, !.error = r.error,
                            !.execution_history = history]
       IN
       /\ execCount' = [execCount EXCEPT ![i] = @ + 1]
       /\ connections' = connections_after(connections, r)
       /\ IF not_error(r.error) THEN
              LET columns == ColumnsOf(r.results)
                  viz == should_visualize(f.question, sql, r.results, columns)
                  p == plot_if_recommended(viz, sql, r.results)
              IN IF p.raised THEN
                     /\ EndRaised(i, p.exc)
                     /\ UNCHANGED <<kernelFunctions, genCount>>
                 ELSE
                     /\ loops' = [loops EXCEPT ![i] =
                                     Ended(f, "returned",
                                           SuccessOutcome(f.question, sql, Reasoning,
                                               r.results, columns, p.plot, viz,
                                               f.attempt), "")]
                     /\ terminated' = Append(terminated, i)
                     /\ UNCHANGED <<kernelFunctions, genCount>>
          ELSE IF InRange(f.attempt + 1, max_retries) THEN
              /\ RegisterAndInvoke(i,
                     _build_sql_correction_prompt(f.question, f.relevant_tables,
                                                  f.relevant_queries, history),
                     [ran EXCEPT !.attempt = f.attempt + 1])
              /\ UNCHANGED terminated
          ELSE
              /\ loops' = [loops EXCEPT ![i] =
                              Ended(f, "returned",
                                    FailureOutcome(f.question, sql, Reasoning,
                                        r.error, max_retries, history), "")]
              /\ terminated' = Append(terminated, i)
              /\ UNCHANGED <<kernelFunctions, genCount>>
    /\ UNCHANGED <<question, max_retries, reqPc, analysis, synthCalls,
                   response, call>>

-----------------------------------------------------------------------------
(* process_question resumed *)

Launched == {i \in LoopIds : loops[i].pc # "unused"}

\* the first exception set on a task of asyncio.gather, in completion order
FirstRaised ==
    LET ks == {k \in 1..Len(terminated) : loops[terminated[k]].pc = "raised"}
    IN terminated[CHOOSE k \in ks : \A j \in ks : k <= j]

\* mutant of gather: the results in the order the tasks completed
gather_AsCompleted(n) == [k \in 1..n |-> loops[terminated[k]].outcome]

\* asyncio.gather(*tasks): the results in the order of the tasks
gather(n) == [i \in 1..n |-> loops[i].outcome]

\* the dict returned by _execute_map_reduce (lines 108-116), or the
\* exception its subscripting raises
MapReduceResponse(q, a, sub_results, synthesis) ==
    IF "reasoning" \notin DOMAIN a THEN
        ErrorResponse(q, "'reasoning'")
    ELSE IF synthesis.kind # "object" THEN
        ErrorResponse(q, "list indices must be integers or slices, not str")
    ELSE IF "unified_answer" \notin DOMAIN synthesis.obj THEN
        ErrorResponse(q, "'unified_answer'")
    ELSE IF "key_insights" \notin DOMAIN synthesis.obj THEN
        ErrorResponse(q, "'key_insights'")
    ELSE
        [type |-> "complex",
         question |-> q,
         execution_plan |-> a.reasoning,
         sub_queries_count |-> Len(a.sub_queries),
         sub_queries |-> sub_results,
         unified_answer |-> synthesis.obj.unified_answer,
         key_insights |-> synthesis.obj.key_insights]

\* asyncio.gather returned every loop's outcome: reduce (lines 100-116)
GatherReturns(ans) ==
    /\ reqPc = "gather"
    /\ \A i \in Launched : loops[i].pc = "returned"
    /\ LET sub_results == gather(Len(analysis.sub_queries))
           synthesis == synthesize_results(question, sub_results, ans)
       IN /\ response' = MapReduceResponse(question, analysis, sub_results, synthesis)
          /\ synthCalls' = synthCalls + synthesis.calls
    /\ reqPc' = "done"
    /\ UNCHANGED <<question, max_retries, analysis, loops, kernelFunctions,
                   terminated, genCount, execCount, call,
                   connections>>

\* asyncio.gather raised the first exception of a loop into
\* _execute_map_reduce; process_question catches it (lines 81-87).  The
\* callback of gather runs after the first step of every task, which the
\* event loop had scheduled before it; the sibling loops are not cancelled
GatherRaises ==
    /\ reqPc = "gather"
    /\ \E i \in Launched : loops[i].pc = "raised"
    /\ \A i \in Launched : loops[i].pc # "created"
    /\ response' = ErrorResponse(question, loops[FirstRaised].exc)
    /\ reqPc' = "done"
    /\ UNCHANGED <<question, max_retries, analysis, loops, kernelFunctions,
                   terminated, genCount, execCount, synthCalls, call,
                   connections>>

\* the dict returned by _execute_simple_query (lines 130-141), or the
\* exception synthesis.get raises
SimpleResponse(q, result, synthesis) ==
    IF synthesis.kind # "object" THEN
        ErrorResponse(q, "'list' object has no attribute 'get'")
    ELSE
        [type |-> "simple",
         question |-> q,
         sql |-> result.sql,
         reasoning |-> result.reasoning,
         results |-> result.results,
         columns |-> result.columns,
         plot |-> GetOr(result, "plot", NonePlot),
         visualization_assessment |->
             GetOr(result, "visualization_assessment", NoneValue),
         summary |-> GetOr(synthesis.obj, "summary", NoneValue),
         key_insights |-> GetOr(synthesis.obj, "key_insights", <<>>)]

\* the one loop of _execute_simple_query returned (lines 120-141)
SimpleReturns(ans) ==
    /\ reqPc = "simple"
    /\ loops[1].pc = "returned"
    /\ LET result == loops[1].outcome
           synthesis == synthesize_simple_result(question, result.sql,
                            result.results, result.columns, ans)
       IN /\ response' = SimpleResponse(question, result, synthesis)
          /\ synthCalls' = synthCalls + synthesis.calls
    /\ reqPc' = "done"
    /\ UNCHANGED <<question, max_retries, analysis, loops, kernelFunctions,
                   terminated, genCount, execCount, call,
                   connections>>

\* the one loop raised; process_question catches it (lines 81-87)
SimpleRaises ==
    /\ reqPc = "simple"
    /\ loops[1].pc = "raised"
    /\ response' = ErrorResponse(question, loops[1].exc)
    /\ reqPc' = "done"
    /\ UNCHANGED <<question, max_retries, analysis, loops, kernelFunctions,
                   terminated, genCount, execCount, synthCalls, call,
                   connections>>

-----------------------------------------------------------------------------
(* Specification *)

Next ==
    \/ \E ans \in PlannerAnswers : process_question(ans)
    \/ \E i \in LoopIds : StartLoop(i)
    \/ \E i \in LoopIds : RetrievalRaises(i)
    \/ \E i \in LoopIds, sql \in SqlTexts : GenerationReturns(i, sql)
    \/ \E i \in LoopIds, m \in GenerationExceptions : GenerationRaises(i, m)
    \/ \E ans \in SynthesisAnswers : GatherReturns(ans)
    \/ GatherRaises
    \/ \E ans \in SimpleSynthesisAnswers : SimpleReturns(ans)
    \/ SimpleRaises

Spec == Init /\ [][Next]_vars

\* _execute_single_query(question, max_retries) called on its own, with any
\* max_retries >= 0 up to the bound
LoopInit ==
    /\ question \in {SubQuestionPool[1], SubQuestionPool[2]}
    /\ max_retries \in 0..MaxRetriesBound
    /\ reqPc = "direct"
    /\ analysis = NoneValue
    /\ loops = [i \in LoopIds |-> IF i = 1 THEN NewLoop(question) ELSE NoLoop]
    /\ kernelFunctions = NoRef
    /\ terminated = <<>>
    /\ genCount = [i \in LoopIds |-> 0]
    /\ execCount = [i \in LoopIds |-> 0]
    /\ synthCalls = 0
    /\ response = NoneValue
    /\ call = NoneValue
    /\ connections \in Builds

LoopNext ==
    \/ StartLoop(1)
    \/ RetrievalRaises(1)
    \/ \E sql \in SqlTexts \cup ChartSqlTexts : GenerationReturns(1, sql)
    \/ \E m \in GenerationExceptions : GenerationRaises(1, m)

LoopSpec == LoopInit /\ [][LoopNext]_vars

-----------------------------------------------------------------------------
(* VisualizationAssessor.should_visualize called on its own *)

\* the columns of the result sets: a name and the kind of its values
ColumnNames ==
    {"month", "label", "period", "product", "country", "total",
     "q1_revenue", "q2_revenue", "note"}

\* the value of column `col` in row k: months hold dates under a
\* time-like name, labels hold dates under a neutral name, periods hold
\* plain text under a time-like name, notes are NULL
CellOf(col, k) ==
    CASE col \in {"month", "label"} -> S(Dates[k])
      [] col = "period" -> S("n/a")
      [] col = "product" -> S("Basic")
      [] col = "country" -> S("USA")
      [] col = "total" -> N(10 * k)
      [] col = "q1_revenue" -> N(120)
      [] col = "q2_revenue" -> N(150)
      [] OTHER -> Null

\* the key sequences of a row: distinct names, as the keys of a dict are
ColumnLists ==
    {c \in UNION {[1..m -> ColumnNames] : m \in 1..MaxColumns} :
        \A j, k \in 1..Len(c) : j # k => c[j] # c[k]}

\* the list of dicts execute_query returns for n rows of the columns c
ResultSet(c, n) ==
    [k \in 1..n |-> [keys |-> c, vals |-> [j \in 1..Len(c) |-> CellOf(c[j], k)]]]

ResultSets == {<<>>} \cup {ResultSet(c, n) : c \in ColumnLists, n \in 1..MaxRows}

AssessInit ==
    /\ question = Question0
    /\ max_retries = DefaultMaxRetries
    /\ reqPc = "assess"
    /\ analysis = NoneValue
    /\ loops = [i \in LoopIds |-> NoLoop]
    /\ kernelFunctions = NoRef
    /\ terminated = <<>>
    /\ genCount = [i \in LoopIds |-> 0]
    /\ execCount = [i \in LoopIds |-> 0]
    /\ synthCalls = 0
    /\ response = NoneValue
    /\ call = NoneValue
    /\ connections = ReferenceCounted

\* should_visualize(question, sql, results, columns) with the columns the
\* agent derives from the results (line 191); one call per behaviour
Assess(results) ==
    /\ reqPc = "assess"
    /\ call = NoneValue
    /\ LET columns == ColumnsOf(results) IN
       call' = [results |-> results,
                columns |-> columns,
                verdict |-> should_visualize(question, SqlEmpty, results, columns)]
    /\ UNCHANGED <<question, max_retries, reqPc, analysis, loops,
                   kernelFunctions, terminated, genCount, execCount,
                   synthCalls, response,
                   connections>>

AssessNext == \E results \in ResultSets : Assess(results)

AssessSpec == AssessInit /\ [][AssessNext]_vars

-----------------------------------------------------------------------------
(* The assessment and plot steps of _execute_single_query (lines 190-204)
   on a result set execute_query returned for the query *)

\* the largest number of rows of a plotted result set
MaxPlotRows == 11

\* the row counts: the single row, the two-point and three-point series,
\* and a result of more than ten rows
PlotRowCounts == {1, 2, 3, MaxPlotRows}

\* the SQL texts of the plotted results: one plain, one aggregating
PlotQueries == {SqlChurn, SqlCount}

PlotInit ==
    /\ question = Question0
    /\ max_retries = DefaultMaxRetries
    /\ reqPc = "plot"
    /\ analysis = NoneValue
    /\ loops = [i \in LoopIds |-> NoLoop]
    /\ kernelFunctions = NoRef
    /\ terminated = <<>>
    /\ genCount = [i \in LoopIds |-> 0]
    /\ execCount = [i \in LoopIds |-> 0]
    /\ synthCalls = 0
    /\ response = NoneValue
    /\ call = NoneValue
    /\ connections = ReferenceCounted

\* columns = ...; viz_assessment = should_visualize(...); plot = None;
\* if viz_assessment['should_visualize']: plot = generate_plot(sql, results)
Plot(sql, results) ==
    /\ reqPc = "plot"
    /\ call = NoneValue
    /\ LET columns == ColumnsOf(results)
           viz_assessment == should_visualize(question, sql, results, columns)
           generated == plot_if_recommended(viz_assessment, sql, results)
       IN call' = [results |-> results,
                   columns |-> columns,
                   query |-> sql,
                   verdict |-> viz_assessment,
                   raised |-> generated.raised,
                   plot |-> generated.plot]
    /\ UNCHANGED <<question, max_retries, reqPc, analysis, loops,
                   kernelFunctions, terminated, genCount, execCount,
                   synthCalls, response,
                   connections>>

PlotNext ==
    \E sql \in PlotQueries, c \in ColumnLists, n \in PlotRowCounts :
        Plot(sql, ResultSet(c, n))

PlotSpec == PlotInit /\ [][PlotNext]_vars

-----------------------------------------------------------------------------
(* PlotGenerator._is_temporal_column on one column of a DataFrame *)

\* the largest number of non-null values of a column
MaxSeriesLen == 11

\* the largest number of NULLs of a column
MaxNulls == 1

\* k copies of a cell
Repeat(cell, k) == [j \in 1..k |-> cell]

\* the first k period strings
Periods(k) == [j \in 1..k |-> S(Dates[((j - 1) % Len(Dates)) + 1])]

\* a column of a DataFrame built from a list of dicts: z NULLs, then p
\* period strings and u other strings, in either order; or numbers only
StringSeries ==
    {Repeat(Null, z) \o Periods(p) \o Repeat(S("Basic"), u) :
        z \in 0..MaxNulls, p \in 0..MaxSeriesLen, u \in 0..MaxSeriesLen}
    \cup
    {Repeat(Null, z) \o Repeat(S("Basic"), u) \o Periods(p) :
        z \in 0..MaxNulls, p \in 0..MaxSeriesLen, u \in 0..MaxSeriesLen}

NumberSeries ==
    {Repeat(Null, z) \o [j \in 1..n |-> N(10 * j)] :
        z \in 0..MaxNulls, n \in 1..MaxSeriesLen}

SeriesSet ==
    {c \in StringSeries : Len(NonNull(c)) <= MaxSeriesLen} \cup NumberSeries

TemporalInit ==
    /\ question = Question0
    /\ max_retries = DefaultMaxRetries
    /\ reqPc = "temporal"
    /\ analysis = NoneValue
    /\ loops = [i \in LoopIds |-> NoLoop]
    /\ kernelFunctions = NoRef
    /\ terminated = <<>>
    /\ genCount = [i \in LoopIds |-> 0]
    /\ execCount = [i \in LoopIds |-> 0]
    /\ synthCalls = 0
    /\ response = NoneValue
    /\ call = NoneValue
    /\ connections = ReferenceCounted

\* one call self._is_temporal_column(df[col])
IsTemporal(series) ==
    /\ reqPc = "temporal"
    /\ call = NoneValue
    /\ call' = [series |-> series, temporal |-> _is_temporal_column(series)]
    /\ UNCHANGED <<question, max_retries, reqPc, analysis, loops,
                   kernelFunctions, terminated, genCount, execCount,
                   synthCalls, response,
                   connections>>

TemporalNext == \E series \in SeriesSet : IsTemporal(series)

TemporalSpec == TemporalInit /\ [][TemporalNext]_vars

-----------------------------------------------------------------------------
(* Properties of _execute_single_query *)

Running(i) == loops[i].pc = "generating"
Returned(i) == loops[i].pc = "returned"
Raised(i) == loops[i].pc = "raised"

SuccessKeys ==
    {"question", "sql", "reasoning", "results", "columns", "plot",
     "visualization_assessment", "attempts"}

FailureKeys ==
    {"question", "sql", "reasoning", "error", "results", "columns",
     "execution_history"}

\* C1: a call of _execute_single_query with max_retries >= 0 makes at most
\* max_retries + 1 SQL generations and at most max_retries + 1 store
\* executions (at most 3 with the default max_retries = 2).
C1_AttemptsBounded ==
    \A i \in LoopIds :
        max_retries >= 0 =>
            /\ genCount[i] <= max_retries + 1
            /\ execCount[i] <= max_retries + 1
            /\ (max_retries = DefaultMaxRetries =>
                    genCount[i] <= 3 /\ execCount[i] <= 3)

\* C1 witness: a call with the default max_retries that used every attempt
C1_Witness ==
    /\ max_retries = DefaultMaxRetries
    /\ Returned(1)
    /\ genCount[1] = max_retries + 1
    /\ execCount[1] = max_retries + 1

\* the history holds one entry per execution made, numbered 1..n in order
HistoryConsistent(h, n) ==
    /\ Len(h) = n
    /\ \A k \in 1..Len(h) : h[k].attempt = k

\* C2: the attempt accounting agrees with the history.  While the loop runs
\* the history holds one entry per attempt performed, numbered 1..n in
\* order; a Success reports attempts = n; an exhausted Failure carries the
\* full history (n = max_retries + 1), the SQL of its last entry as its
\* query, and an error message holding the store error of its last entry.
C2_AccountingConsistent ==
    \A i \in LoopIds :
        /\ Running(i) => HistoryConsistent(loops[i].execution_history, execCount[i])
        /\ Returned(i) =>
              LET o == loops[i].outcome IN
              IF "error" \in DOMAIN o
              THEN /\ HistoryConsistent(o.execution_history, execCount[i])
                   /\ Len(o.execution_history) = max_retries + 1
                   /\ o.error.failed_after = Len(o.execution_history)
                   /\ o.sql = o.execution_history[Len(o.execution_history)].sql
                   /\ o.error.last_error =
                          o.execution_history[Len(o.execution_history)].error
              ELSE /\ o.attempts = execCount[i]
                   /\ o.attempts >= 1

\* C2 witness: an exhausted Failure after several attempts
C2_Witness ==
    /\ Returned(1)
    /\ "error" \in DOMAIN loops[1].outcome
    /\ Len(loops[1].outcome.execution_history) = 3
    /\ loops[1].outcome.execution_history[1].sql
          # loops[1].outcome.execution_history[3].sql

\* C3: every returned outcome is a Success (no error field; the rows and the
\* derived columns of the execution that succeeded, which the store ran
\* without error) or a Failure (an error field, results = [] and
\* columns = []), never both.
C3_SuccessXorFailure ==
    \A i \in LoopIds :
        Returned(i) =>
            LET o == loops[i].outcome
                success == /\ DOMAIN o = SuccessKeys
                           /\ execute_query(o.sql).error = None
                           /\ o.results = execute_query(o.sql).results
                           /\ o.columns = ColumnsOf(o.results)
                failure == /\ DOMAIN o = FailureKeys
                           /\ o.results = <<>>
                           /\ o.columns = <<>>
                           /\ ~Falsy(o.error.last_error)
            IN (success \/ failure) /\ ~(success /\ failure)

\* C3 witness: a Success with rows, reached after a failed attempt
C3_Witness ==
    /\ Returned(1)
    /\ "error" \notin DOMAIN loops[1].outcome
    /\ Len(loops[1].outcome.results) = 2
    /\ loops[1].outcome.attempts = 2

\* the (attempt, SQL, error) blocks of the first n history entries
PriorAttempts(h, n) == [k \in 1..n |-> <<k, h[k].sql, h[k].error>>]

\* the prompt a running loop generates from agrees with its history
PromptSeesAllPriorAttempts(i) ==
    LET f == loops[i]
        p == f.chat_function.prompt
    IN /\ Len(f.execution_history) = f.attempt
       /\ genCount[i] = f.attempt + 1
       /\ execCount[i] = f.attempt
       /\ p.question = f.question
       /\ \A k \in 1..Len(f.execution_history) :
             ~Falsy(f.execution_history[k].error)
       /\ IF f.attempt = 0
          THEN p.kind = "generate" /\ p.attempts = <<>>
          ELSE /\ p.kind = "correct"
               /\ p.attempts = PriorAttempts(f.execution_history, f.attempt)

\* once a loop has ended it generates and executes nothing more
NoStepAfterEnd ==
    \A i \in LoopIds :
        loops[i].pc \in {"returned", "raised"} =>
            /\ genCount'[i] = genCount[i]
            /\ execCount'[i] = execCount[i]
            /\ loops'[i] = loops[i]

\* C4: the prompt of attempt 1 holds no prior attempt; the prompt of attempt
\* k >= 2 holds the (SQL, error) pairs of all attempts 1..k-1 of the same
\* run, in attempt order; attempt k+1 is generated only after attempt k's
\* execution failed; nothing is generated or executed after a loop ended.
C4_PromptHistory ==
    /\ [](\A i \in LoopIds : Running(i) => PromptSeesAllPriorAttempts(i))
    /\ [][NoStepAfterEnd]_vars

\* C4 witness: a third attempt generated from two different failed attempts
C4_Witness ==
    /\ Running(1)
    /\ loops[1].attempt = 2
    /\ loops[1].execution_history[1].sql # loops[1].execution_history[2].sql
    /\ loops[1].chat_function.prompt.attempts
          = PriorAttempts(loops[1].execution_history, 2)

\* C5: a generation failure (the language-model call raising, or its text
\* being empty or malformed) consumes one attempt, is recorded in the
\* history and feeds the retry; it never leaves _execute_single_query as an
\* exception and never produces a Success.
C5_GenerationFailureFeedsRetry ==
    \A i \in LoopIds :
        /\ Raised(i) => loops[i].exc \notin GenerationExceptions
        /\ (Returned(i) /\ "error" \notin DOMAIN loops[i].outcome) =>
               loops[i].outcome.sql # SqlEmpty

\* C6: the expiry of a language-model call's timeout counts as a failed
\* attempt feeding the retry path, so a started loop ends by returning an
\* outcome (Success or Failure), never by the timeout's exception.
C6_TimeoutFeedsRetry ==
    \A i \in LoopIds :
        (genCount[i] >= 1 /\ Raised(i)) => loops[i].exc # "Request timed out."

-----------------------------------------------------------------------------
(* Properties of process_question *)

OnMapReducePath ==
    /\ "is_complex" \in DOMAIN analysis
    /\ analysis.is_complex
    /\ "sub_queries" \in DOMAIN analysis

\* C7: process_question never raises: whatever a collaborator does, it ends
\* with a response of type simple, complex or error, and an error response
\* carries the original question and an error message.
C7_NeverRaises ==
    /\ reqPc = "done" <=> response # NoneValue
    /\ reqPc = "done" =>
          /\ response.type \in {"simple", "complex", "error"}
          /\ response.type = "error" =>
                /\ DOMAIN response = {"type", "error", "question"}
                /\ response.question = question

\* C7 witness: a loop raised and process_question answered with an error
C7_Witness ==
    /\ reqPc = "done"
    /\ response.type = "error"
    /\ \E i \in LoopIds : Raised(i) /\ response.error = loops[i].exc

\* C8: the reduce step is reached only after every sub-question's loop has
\* finished, and a sub-question that failed, by an exhausted loop or by an
\* exception of its retrieval, generation or charting, never turns the
\* request into an error response: it is a Failure among the sub-results.
C8_SubFailureContained ==
    (reqPc = "done" /\ OnMapReducePath /\ "reasoning" \in DOMAIN analysis) =>
        /\ \A i \in Launched : loops[i].pc \in {"returned", "raised"}
        /\ (\E i \in Launched : Raised(i)) =>
              /\ response.type = "complex"
              /\ \A i \in Launched :
                    Raised(i) => "error" \in DOMAIN response.sub_queries[i]

\* C9: in every complex response sub-result i belongs to sub-question i,
\* whatever the completion order of the concurrent loops.
C9_JoinOrder ==
    (reqPc = "done" /\ response.type = "complex") =>
        /\ Len(response.sub_queries) = Len(analysis.sub_queries)
        /\ \A i \in 1..Len(analysis.sub_queries) :
              /\ response.sub_queries[i].question = analysis.sub_queries[i]
              /\ response.sub_queries[i] = loops[i].outcome

\* C9 witness: a complex response whose second loop completed first
C9_Witness ==
    /\ reqPc = "done"
    /\ response.type = "complex"
    /\ Len(response.sub_queries) = 2
    /\ terminated[1] = 2
    /\ terminated[2] = 1

\* the loop of sub-question i was rejected by the store on every attempt
StoreFailedEveryAttempt(i) ==
    Returned(i) /\ "error" \in DOMAIN loops[i].outcome

\* C10: a composite question of N sub-questions, some failing in the store
\* on every attempt and the others succeeding, gets a complex response with
\* exactly N sub-results (sub_queries_count = N), sub-result i a Failure
\* exactly when sub-question i failed, and a non-empty unified_answer; it is
\* not an error response.
C10_PartialFailureResponse ==
    ( /\ reqPc = "done"
      /\ OnMapReducePath
      /\ "reasoning" \in DOMAIN analysis
      /\ \A i \in Launched : Returned(i)
      /\ \E i \in Launched : StoreFailedEveryAttempt(i)
      /\ \E i \in Launched : ~StoreFailedEveryAttempt(i) ) =>
        /\ response.type = "complex"
        /\ response.sub_queries_count = Len(analysis.sub_queries)
        /\ Len(response.sub_queries) = Len(analysis.sub_queries)
        /\ \A i \in 1..Len(analysis.sub_queries) :
              ("error" \in DOMAIN response.sub_queries[i])
                  <=> StoreFailedEveryAttempt(i)
        /\ response.unified_answer.text # ""

-----------------------------------------------------------------------------
(* Properties of the planner and the synthesizer *)

\* C11: whenever analyze_question returned an analysis whose is_complex is
\* false (or absent), its sub_queries is the empty list, whatever the
\* language model's answer held.
C11_SimpleHasNoSubQueries ==
    (analysis # NoneValue /\ ~GetTruthy(analysis, "is_complex")) =>
        /\ "sub_queries" \in DOMAIN analysis
        /\ analysis.sub_queries = <<>>

\* C11 witness: a parsed answer (not the fallback) classified as simple
C11_Witness ==
    /\ analysis # NoneValue
    /\ "is_complex" \in DOMAIN analysis
    /\ analysis.is_complex = FALSE
    /\ "reasoning" \in DOMAIN analysis
    /\ analysis.reasoning = PlannerReasoning
    /\ analysis.sub_queries = <<>>

\* C12: whenever analyze_question reports a question as composite, it
\* returns between 2 and 4 sub-questions, and _execute_map_reduce launches
\* that many loops.
C12_FanOutBounded ==
    (reqPc # "start" /\ GetTruthy(analysis, "is_complex")
                     /\ "sub_queries" \in DOMAIN analysis) =>
        /\ Len(analysis.sub_queries) >= 2
        /\ Len(analysis.sub_queries) <= 4
        /\ Cardinality(Launched) = Len(analysis.sub_queries)

\* the fallback analysis of the except branch of analyze_question
IsFallbackAnalysis(a) ==
    /\ DOMAIN a = {"is_complex", "reasoning", "sub_queries"}
    /\ a.is_complex = FALSE
    /\ a.sub_queries = <<>>
    /\ a.reasoning.text = "Error analyzing question: {}. Treating as simple query."

\* the answer of the classifier's language model was not the expected
\* structure: an object without is_complex, or a composite one without
\* sub_queries (a raising call, invalid JSON and a JSON list end in the
\* fallback analysis)
ClassificationFailed(a) ==
    \/ "is_complex" \notin DOMAIN a
    \/ (a.is_complex /\ "sub_queries" \notin DOMAIN a)
    \/ IsFallbackAnalysis(a)

\* C13: a failed classification (raising call, unparsable answer, or an
\* object missing is_complex or, when composite, sub_queries) yields
\* {is_complex: false, sub_queries: []} with the failure reason in
\* reasoning, and the request goes on with exactly one loop on the simple
\* path: the classification failure never ends it in an error response.
C13_ClassificationFailureDegrades ==
    (reqPc # "start" /\ ClassificationFailed(analysis)) =>
        /\ IsFallbackAnalysis(analysis)
        /\ Launched = {1}
        /\ loops[1].question = question
        /\ (reqPc = "done" /\ response.type = "error") => Raised(1)

\* process_question reached the synthesizer: the analysis could be read and
\* every loop it launched returned an outcome
SynthesisReached ==
    /\ reqPc = "done"
    /\ "is_complex" \in DOMAIN analysis
    /\ IF analysis.is_complex
       THEN /\ "sub_queries" \in DOMAIN analysis
            /\ "reasoning" \in DOMAIN analysis
            /\ \A i \in Launched : Returned(i)
       ELSE Returned(1)

\* C14: whatever the synthesizer's language model does (raising, invalid
\* JSON, JSON missing unified_answer / summary / key_insights), a request
\* that reached the synthesizer returns a complex or simple response, never
\* an error response.
C14_SynthesisFailureFallsBack ==
    SynthesisReached =>
        /\ response.type = (IF analysis.is_complex THEN "complex" ELSE "simple")
        /\ analysis.is_complex => response.unified_answer # NoneValue

\* C15: synthesize_simple_result called with zero rows returns the fixed
\* synthesis (summary 'No data found matching your query.', no insight)
\* without a language-model call; with at least one row it makes at most
\* one language-model call.
C15_NoRowsNoCall ==
    (SynthesisReached /\ ~analysis.is_complex) =>
        /\ synthCalls <= 1
        /\ Len(loops[1].outcome.results) = 0 =>
              /\ synthCalls = 0
              /\ response.type = "simple"
              /\ response.summary = Text("No data found matching your query.", <<>>)
              /\ response.key_insights = <<>>

\* C15 witness: a simple request whose query succeeded with zero rows
C15_Witness ==
    /\ SynthesisReached
    /\ ~analysis.is_complex
    /\ "error" \notin DOMAIN loops[1].outcome
    /\ Len(loops[1].outcome.results) = 0
    /\ synthCalls = 0
    /\ response.type = "simple"

-----------------------------------------------------------------------------
(* Properties of the visualization step of _execute_single_query *)

\* C16: in every outcome _execute_single_query returns, a verdict with
\* should_visualize = false comes with a null plot, and a Failure carries
\* no plot (and no verdict) at all.
C16_NoVerdictNoPlot ==
    \A i \in LoopIds :
        Returned(i) =>
            LET o == loops[i].outcome IN
            IF "error" \in DOMAIN o
            THEN "plot" \notin DOMAIN o /\ "visualization_assessment" \notin DOMAIN o
            ELSE ~o.visualization_assessment.should_visualize => o.plot = NonePlot

\* C16 witness: a Success with a scalar result, which the plot generator
\* would have charted
C16_Witness ==
    /\ Returned(1)
    /\ "error" \notin DOMAIN loops[1].outcome
    /\ ~loops[1].outcome.visualization_assessment.should_visualize
    /\ Len(loops[1].outcome.results) = 1
    /\ loops[1].outcome.plot = NonePlot
    /\ generate_plot(loops[1].outcome.sql, loops[1].outcome.results).plot # NonePlot

\* C17: in every Success whose verdict recommends a visualization the chart
\* specification is attached: the plot is not null.
C17_RecommendedPlotAttached ==
    \A i \in LoopIds :
        (Returned(i) /\ "error" \notin DOMAIN loops[i].outcome) =>
            (loops[i].outcome.visualization_assessment.should_visualize =>
                 loops[i].outcome.plot # NonePlot)

-----------------------------------------------------------------------------
(* Properties of VisualizationAssessor.should_visualize *)

\* C18: zero rows give should_visualize = false; one row of one column
\* gives false with the scalar display hint; at least two rows of exactly
\* two columns give true with the chart family left to auto-detection; the
\* scalar hint occurs in no other case; every input gets one verdict.
C18_ShapeRules ==
    call # NoneValue =>
        LET r == call.results
            c == call.columns
            v == call.verdict
        IN /\ {"should_visualize", "reason", "chart_type"} \subseteq DOMAIN v
           /\ v.should_visualize \in BOOLEAN
           /\ Len(r) = 0 => ~v.should_visualize
           /\ (Len(r) = 1 /\ Len(c) = 1) =>
                  /\ ~v.should_visualize
                  /\ "display_format" \in DOMAIN v
                  /\ v.display_format = "scalar"
           /\ (Len(r) >= 2 /\ Len(c) = 2) =>
                  v.should_visualize /\ v.chart_type = "auto"
           /\ "display_format" \in DOMAIN v => (Len(r) = 1 /\ Len(c) = 1)

\* C18 witness: a call with two rows of one column, which gets no scalar hint
C18_Witness ==
    /\ call # NoneValue
    /\ Len(call.results) = 2
    /\ Len(call.columns) = 1
    /\ "display_format" \notin DOMAIN call.verdict
    /\ ~call.verdict.should_visualize

\* the column name holds a category-like token: a calendar period or a
\* known dimension name
CategoryLike(col) == KeywordsIn(col) \cap pivot_keywords # {}

\* C19: for one row of at least 2 columns the verdict is true with family
\* bar exactly when at least 2 column names hold a category-like token,
\* and false otherwise, for 2 columns as for 3 or more.
C19_SingleRowPivot ==
    (call # NoneValue /\ Len(call.results) = 1 /\ Len(call.columns) >= 2) =>
        LET c == call.columns
            v == call.verdict
        IN IF Cardinality({k \in 1..Len(c) : CategoryLike(c[k])}) >= 2
           THEN v.should_visualize /\ v.chart_type = "bar"
           ELSE ~v.should_visualize

\* some non-numeric column's sampled values parse as dates
SomeColumnHoldsDates(results, columns) ==
    \E k \in 1..Len(columns) : _is_temporal_column(Column(results, columns[k]))

\* the first non-null value of the column is a string / a number
StringTyped(cells) == Len(NonNull(cells)) > 0 /\ NonNull(cells)[1].t = "str"
NumberTyped(cells) == Len(NonNull(cells)) > 0 /\ NonNull(cells)[1].t = "num"

\* the same values under names that hold no keyword
Renamed(results) ==
    [k \in 1..Len(results) |->
        [keys |-> [j \in 1..Len(results[k].keys) |-> <<"c1", "c2", "c3", "c4">>[j]],
         vals |-> results[k].vals]]

\* C20: for at least 2 rows of at least 3 columns the verdict is line
\* exactly when some non-numeric column's values parse as dates; otherwise
\* bar when the first column is string-typed and another column is numeric;
\* otherwise no visualization.  The decision follows the values: the same
\* values under other column names get the same verdict.
C20_ValueDrivenTemporal ==
    (call # NoneValue /\ Len(call.results) >= 2 /\ Len(call.columns) >= 3) =>
        LET r == call.results
            c == call.columns
            v == call.verdict
            w == should_visualize(question, SqlEmpty, Renamed(r), ColumnsOf(Renamed(r)))
        IN /\ IF SomeColumnHoldsDates(r, c)
              THEN v.should_visualize /\ v.chart_type = "line"
              ELSE IF /\ StringTyped(Column(r, c[1]))
                      /\ \E k \in 2..Len(c) : NumberTyped(Column(r, c[k]))
                   THEN v.should_visualize /\ v.chart_type = "bar"
                   ELSE ~v.should_visualize
           /\ w.should_visualize = v.should_visualize
           /\ w.chart_type = v.chart_type

-----------------------------------------------------------------------------
(* Properties of the chart built for an outcome *)

\* a chart was generated by the call
Charted == call # NoneValue /\ call.plot.kind = "figure"

\* every value of the column is a string that parses as a period
PeriodColumn(cells) ==
    /\ Len(cells) > 0
    /\ \A k \in 1..Len(cells) : cells[k].t = "str" /\ ParsesAsDatetime(cells[k].s)

\* every value of the column is a number
NumberColumn(cells) ==
    Len(cells) > 0 /\ \A k \in 1..Len(cells) : cells[k].t = "num"

\* C21: for at least 2 rows of exactly 2 columns, one holding periods and
\* the other numbers, the verdict is to visualize and the family of the
\* generated chart is line.
C21_PeriodSeriesIsLine ==
    (/\ call # NoneValue
     /\ Len(call.results) >= 2
     /\ Len(call.columns) = 2
     /\ \E j, k \in 1..2 :
            /\ j # k
            /\ PeriodColumn(Column(call.results, call.columns[j]))
            /\ NumberColumn(Column(call.results, call.columns[k])))
    => /\ call.verdict.should_visualize
       /\ call.plot.kind = "figure"
       /\ call.plot.chart_type = "line"

\* no column of the result set is temporal
NoTemporalColumn(results) ==
    \A k \in 1..Len(ColumnsOf(results)) :
        ~_is_temporal_column(Column(results, ColumnsOf(results)[k]))

\* C22: for at least 2 rows of exactly 2 columns, none temporal, the
\* detected family is scatter for two numeric columns, pie for a
\* categorical and a ratio-valued column of at most 10 rows, bar for any
\* other categorical and numeric pair, and never pie above 10 rows.
C22_AutoDetectedFamily ==
    (/\ Charted
     /\ Len(call.results) >= 2
     /\ Len(call.columns) = 2
     /\ NoTemporalColumn(call.results))
    => LET r == call.results
           numeric == NumericCols(r)
           family == call.plot.chart_type
       IN /\ Cardinality(numeric) = 2 => family = "scatter"
          /\ Cardinality(numeric) = 1 =>
                LET v == CHOOSE k \in numeric : TRUE IN
                IF IsRatioColumn(Column(r, call.columns[v])) /\ Len(r) <= 10
                THEN family = "pie"
                ELSE family = "bar"
          /\ Len(r) > 10 => family # "pie"

\* the numbers a trace plots and the labels it plots them against
TraceValues(trace) == IF trace.type = "bar" THEN trace.x ELSE trace.y
TraceLabels(trace) == IF trace.type = "bar" THEN trace.y ELSE trace.x

\* the values of a sequence of numeric cells do not decrease
Ascending(cells) ==
    \A j, k \in 1..Len(cells) : j < k => cells[j].n <= cells[k].n

\* C24: a bar chart returned by generate_plot plots its values in ascending
\* order and has the height max(400, 40 x rows), so above 10 rows it is
\* taller than 400.
C24_BarHeightScales ==
    (Charted /\ call.plot.chart_type = "bar" /\ Len(call.plot.traces) > 0) =>
        LET rows == Len(call.results) IN
        /\ Ascending(TraceValues(call.plot.traces[1]))
        /\ call.plot.height = (IF 40 * rows > 400 THEN 40 * rows ELSE 400)
        /\ rows > 10 => call.plot.height > 400

\* the column of the input the trace takes its numbers from, and the one
\* it takes its labels from
PairOf(results, trace) ==
    [k \in 1..Len(results) |->
        <<TraceLabels(trace)[k], TraceValues(trace)[k]>>]

\* the label-value pairs of the input rows for a label and a value column
InputPairs(results, label_col, value_col) ==
    [k \in 1..Len(results) |->
        <<Get(results[k], label_col), Get(results[k], value_col)>>]

\* two sequences hold the same elements the same number of times
SameBag(a, b) ==
    /\ Len(a) = Len(b)
    /\ \A e \in {a[k] : k \in 1..Len(a)} \cup {b[k] : k \in 1..Len(b)} :
          Cardinality({k \in 1..Len(a) : a[k] = e})
              = Cardinality({k \in 1..Len(b) : b[k] = e})

\* the numeric columns of the input, by name
NumericNames(results) ==
    {ColumnsOf(results)[k] : k \in NumericCols(results)}

\* C25: the values re-extracted from a returned chart are the values of
\* the input rows for the columns the family plots, label and value kept
\* together, none dropped or duplicated, the values numeric; a bar chart is
\* ascending by value and the other families keep the row order; with a
\* category and several metrics (bar or line) every numeric column of the
\* input is a series.
C25_ChartRoundTrip ==
    Charted =>
        LET r == call.results
            plot == call.plot
            traces == plot.traces
        IN /\ \A t \in 1..Len(traces) :
                 \E label_col, value_col \in {call.columns[k] : k \in 1..Len(call.columns)} :
                    /\ value_col \in NumericNames(r)
                    /\ IF traces[t].type = "bar"
                       THEN /\ SameBag(PairOf(r, traces[t]),
                                       InputPairs(r, label_col, value_col))
                            /\ Ascending(TraceValues(traces[t]))
                       ELSE PairOf(r, traces[t]) = InputPairs(r, label_col, value_col)
           /\ plot.chart_type \in {"bar", "line"} /\ Len(call.columns) >= 3 =>
                 \A name \in NumericNames(r) :
                    \E t \in 1..Len(traces) : traces[t].value_col = name

\* C29: when the verdict names the family bar or line, the chart built for
\* the outcome is of that family.
C29_ChartOfVerdictFamily ==
    (Charted /\ call.verdict.chart_type \in {"bar", "line"}) =>
        call.plot.chart_type = call.verdict.chart_type

-----------------------------------------------------------------------------
(* Properties of the temporal detection *)

\* the first at most 10 non-null values of a column
SampleOf(cells) ==
    SubSeq(NonNull(cells), 1, Min2(10, Len(NonNull(cells))))

\* the number of values of the sample that parse as dates or periods
ParsedIn(cells) ==
    Cardinality({k \in 1..Len(SampleOf(cells)) :
        /\ SampleOf(cells)[k].t = "str"
        /\ ParsesAsDatetime(SampleOf(cells)[k].s)})

\* C23: a non-numeric column is temporal exactly when at least 80% of its
\* first at most 10 non-null values parse as dates or periods (4 of 5 and
\* 8 of 10 included); a numeric column and a column without a non-null
\* value are never temporal.
C23_TemporalAtEightyPercent ==
    call # NoneValue =>
        LET cells == call.series IN
        IF IsNumericDtype(cells) \/ Len(NonNull(cells)) = 0
        THEN ~call.temporal
        ELSE call.temporal <=> (ParsedIn(cells) * 100 >= 80 * Len(SampleOf(cells)))

-----------------------------------------------------------------------------
(* Properties of concurrent loops *)

\* the function loop i awaits was created by i for its current attempt,
\* from a prompt built of i's question, the tables and examples retrieved
\* for i's question and i's own history
OwnPrompt(i) ==
    LET f == loops[i]
        p == f.chat_function.prompt
        tables == search_tables(f.question)
        queries == search_queries(f.question)
    IN /\ f.chat_function.ref = <<i, f.attempt>>
       /\ f.relevant_tables = tables
       /\ f.relevant_queries = queries
       /\ p.question = f.question
       /\ p.tables = [k \in 1..Len(tables) |-> tables[k].document]
       /\ p.queries = [k \in 1..Len(queries) |-> queries[k].query]
       /\ p.attempts = PriorAttempts(f.execution_history, f.attempt)

\* C26: on the map-reduce path every loop works on its own sub-question
\* only: the function a running loop awaits was built by that loop from
\* its own sub-question, context and history, whichever loop registered
\* last under SQLGenerator.generate, and a returned outcome is that of the
\* loop's own sub-question.
C26_LoopsIsolated ==
    (OnMapReducePath /\ reqPc \in {"gather", "done"}) =>
        \A i \in Launched :
            /\ loops[i].question = analysis.sub_queries[i]
            /\ Running(i) => OwnPrompt(i)
            /\ Returned(i) => loops[i].outcome.question = analysis.sub_queries[i]

\* two loops of different sub-questions both await a generation after a
\* failed attempt each, and the function registered on the kernel is not
\* the one loop 1 awaits
C26_Witness ==
    /\ OnMapReducePath
    /\ Running(1) /\ Running(2)
    /\ loops[1].question # loops[2].question
    /\ Len(loops[1].execution_history) > 0
    /\ Len(loops[2].execution_history) > 0
    /\ kernelFunctions # loops[1].chat_function.ref

\* process_question has returned its response
RequestEnded == reqPc = "done"

\* every launched loop has ended
AllLoopsEnded == \A i \in Launched : loops[i].pc \in {"returned", "raised"}

\* no loop generates or executes in this step
NoLoopStep == genCount' = genCount /\ execCount' = execCount /\ loops' = loops

\* C27: when process_question returns its response every loop it launched
\* has ended, and no loop performs a generation or a store execution after
\* the request ended.
C27_NoLoopOutlivesRequest ==
    /\ [](RequestEnded => AllLoopsEnded)
    /\ [][RequestEnded => NoLoopStep]_vars

-----------------------------------------------------------------------------
(* Properties of the simple path *)

\* the request went down the simple path and its one loop returned a Failure
SimpleLoopFailed ==
    /\ reqPc = "done"
    /\ "is_complex" \in DOMAIN analysis
    /\ ~analysis.is_complex
    /\ Returned(1)
    /\ "error" \in DOMAIN loops[1].outcome

\* the response to a query that succeeded with zero rows
LooksLikeNoData(resp) ==
    /\ resp.type = "simple"
    /\ resp.summary = Text("No data found matching your query.", <<>>)
    /\ "error" \notin DOMAIN resp

\* C28: on the simple path a loop that ended in Failure is surfaced: the
\* response carries the failure reason and is not the response of a query
\* that succeeded with zero rows.
C28_SimpleFailureSurfaced ==
    SimpleLoopFailed =>
        /\ "error" \in DOMAIN response
        /\ ~LooksLikeNoData(response)

-----------------------------------------------------------------------------
(* Properties of the store connections *)

=============================================================================
